---- MODULE Spec2Model ----
(***************************************************************************)
(* Model of torchio.transforms.transform.Transform: construction with a   *)
(* validated probability, the invocation protocol of __call__ (input      *)
(* normalisation, validation, probabilistic gate, deep copy, the strict   *)
(* numeric-error bracket around apply_transform, re-wrapping of the       *)
(* result) and the static helper parse_interpolation.                     *)
(*                                                                         *)
(* Reals in [0,1] are modelled as k/Resolution with k an integer.  A 4D   *)
(* buffer is modelled by its shape and one value per leading-axis slice.  *)
(***************************************************************************)
EXTENDS Integers, Sequences, FiniteSets, TLC

\* ---------------------------------------------------------------- bounds
Resolution == 4
MaxChannels == 2
MaxLen == 3

\* ------------------------------------------------------ program constants
\* tensor.float() converts to single precision: 24 significant bits.
F32Mantissa == 24
\* parse_tensor accepts exactly this number of dimensions.
NumDimensions == 4

Threads == {1, 2}

VARIABLES
    instance,      \* "none" | "live" | "failed": outcome of Transform(p)
    pArg,          \* the argument p given to the constructor
    probability,   \* self.probability (meaningful when instance = "live")
    ctorErr,       \* error raised by the constructor, or "none"
    pc,            \* per thread: position inside __call__
    data,          \* per thread: contents of the caller's argument object
    snapshot,      \* per thread: contents of that object when the call began
    sample,        \* per thread: contents of the object `sample` refers to
                   \*   when it is not the caller's object
    alias,         \* per thread: `sample` IS the caller's object
    is_tensor,     \* per thread: local is_tensor
    is_array,      \* per thread: local is_array
    draw,          \* per thread: value of torch.rand(1).item(), -1 before
    copied,        \* per thread: deepcopy(sample) was executed
    applied,       \* per thread: number of apply_transform invocations
    behaviour,     \* per thread: what apply_transform did in this call
    seen,          \* per thread: error mode observed inside apply_transform
    pending,       \* per thread: exception in flight out of apply_transform
    errstate,      \* numpy floating-point error mode, per storage slot
    saved,         \* per thread: mode saved by np.errstate.__enter__
    ambient,       \* per thread: the mode the caller had before any call
    outcome,       \* per thread: what __call__ returned or raised
    firstErr,      \* per thread: the error of the call this one repeats
    interpIn,      \* argument of parse_interpolation
    interpOut      \* its outcome

ctorVars == <<instance, pArg, probability, ctorErr>>
callVars == <<pc, data, snapshot, sample, alias, is_tensor, is_array, draw,
              copied, applied, behaviour, seen, pending, errstate, saved,
              outcome, firstErr>>
interpVars == <<interpIn, interpOut>>
vars == <<instance, pArg, probability, ctorErr, pc, data, snapshot, sample,
          alias, is_tensor, is_array, draw, copied, applied, behaviour, seen,
          pending, errstate, saved, ambient, outcome, firstErr, interpIn,
          interpOut>>

\* ------------------------------------------------------------ data model
Range(s) == {s[i] : i \in DOMAIN s}

RECURSIVE BitLength(_)
BitLength(n) == IF n = 0 THEN 0 ELSE 1 + BitLength(n \div 2)

\* tensor.float() on one element: round to nearest, ties to even, keeping
\* F32Mantissa significant bits.
ToFloat32(v) ==
    IF BitLength(v) <= F32Mantissa THEN v
    ELSE LET unit == 2 ^ (BitLength(v) - F32Mantissa)
             q    == v \div unit
             r    == v % unit
             half == unit \div 2
             up   == r > half \/ (r = half /\ q % 2 = 1)
         IN  (IF up THEN q + 1 ELSE q) * unit

ValuePool == {0, 1, 2 ^ F32Mantissa + 1}
ValuesOf(dtype) ==
    IF dtype = "float32" THEN {v \in ValuePool : ToFloat32(v) = v}
    ELSE ValuePool

Image(shape, val, nonfinite) ==
    [type |-> "intensity", shape |-> shape, val |-> val,
     nonfinite |-> nonfinite]

Null ==
    [tag |-> "none", kind |-> "none", dtype |-> "none", is_sample |-> FALSE,
     shape |-> <<>>, vals |-> <<>>, images |-> <<>>, nonfinite |-> FALSE]

Raw(kind, dtype, shape, vals, nonfinite) ==
    [tag |-> "raw", kind |-> kind, dtype |-> dtype, is_sample |-> FALSE,
     shape |-> shape, vals |-> vals, images |-> <<>>,
     nonfinite |-> nonfinite]

SubjectOf(images, is_sample) ==
    [tag |-> "subject", kind |-> "none", dtype |-> "none",
     is_sample |-> is_sample, shape |-> <<>>, vals |-> <<>>,
     images |-> images, nonfinite |-> FALSE]

Other == [Null EXCEPT !.tag = "other"]

Ones(n) == [i \in 1..n |-> 1]

SeqsUpTo(S, n) == UNION {[1..m -> S] : m \in 1..n}

\* The arguments a caller can pass to __call__: raw buffers of 3, 4 or 5
\* dimensions (a float32 buffer holds only float32 values), Subjects that
\* are or are not samples of a dataset, and an object of another type.
RawInputs ==
    { d \in { Raw(k, dt, <<Len(vs)>> \o Ones(n - 1), vs, FALSE) :
                k \in {"tensor", "ndarray"}, dt \in {"float32", "float64"},
                n \in (NumDimensions - 1)..(NumDimensions + 1),
                vs \in SeqsUpTo(ValuePool, MaxChannels) } :
        Range(d.vals) \subseteq ValuesOf(d.dtype) }

SubjectInputs ==
    { SubjectOf([i \in DOMAIN vs |->
                    Image(Ones(NumDimensions), vs[i], FALSE)], s) :
        vs \in SeqsUpTo(ValuePool, MaxChannels), s \in BOOLEAN }

Inputs == RawInputs \cup SubjectInputs \cup {Other}

\* The smaller set of arguments used when two calls are interleaved.
ConcInputs ==
    { d \in Inputs : /\ d.tag = "raw" => Len(d.vals) = 1 /\ d.vals[1] = 1
                                         /\ d.dtype = "float32"
                                         /\ Len(d.shape) >= NumDimensions
                     /\ d.tag = "subject" => Len(d.images) = 1
                                             /\ d.images[1].val = 1 }

\* ------------------------------------------------------- parse_probability
\* A constructor argument: a real k/Resolution, a NaN, a complex number or
\* a string.
PInputs ==
    {[kind |-> "real", val |-> v] : v \in (0 - 1)..(Resolution + 1)}
    \cup {[kind |-> k, val |-> 0] : k \in {"nan", "complex", "str"}}

IsNumber(p) == p.kind \in {"real", "nan", "complex"}

\* Ordering a complex number raises TypeError; a NaN compares False.
parse_probability_exclusive(p) ==
    IF IsNumber(p) /\ p.kind = "complex"
    THEN [err |-> "TypeError", value |-> 0]
    ELSE IF ~(IsNumber(p) /\ p.kind = "real" /\ 0 < p.val /\ p.val <= Resolution)
    THEN [err |-> "ValueError", value |-> 0]
    ELSE [err |-> "none", value |-> p.val]

parse_probability(p) ==
    IF IsNumber(p) /\ p.kind = "complex"
    THEN [err |-> "TypeError", value |-> 0]
    ELSE IF ~(IsNumber(p) /\ p.kind = "real" /\ 0 <= p.val /\ p.val <= Resolution)
    THEN [err |-> "ValueError", value |-> 0]
    ELSE [err |-> "none", value |-> p.val]

\* ------------------------------------------------------------ parse_sample
parse_sample_lenient(s) ==
    IF ~(s.tag = "subject") THEN "RuntimeError" ELSE "none"

parse_sample(s) ==
    IF ~(s.tag = "subject") \/ ~s.is_sample THEN "RuntimeError" ELSE "none"

\* ------------------------------------------------------------ parse_tensor
\* Image(tensor=channel_tensor, type=INTENSITY): the image's data is the
\* slice with a channel axis added in front.
ImageFromTensor(channel_shape, val) ==
    Image(<<1>> \o channel_shape, val, FALSE)

\* ImagesDataset([subject])[0]: a copy of the subject marked as a sample.
DatasetGetItem(subject) == [subject EXCEPT !.is_sample = TRUE]

get_subject_from_tensor(tensor) ==
    DatasetGetItem(
        SubjectOf([i \in 1..tensor.shape[1] |->
                      ImageFromTensor(Tail(tensor.shape), tensor.vals[i])],
                  FALSE))

\* torch.from_numpy (for an array), then tensor.float().
ToFloatTensor(d) ==
    [d EXCEPT !.kind = "tensor", !.dtype = "float32",
              !.vals = [i \in DOMAIN d.vals |-> ToFloat32(d.vals[i])]]

parse_tensor(d) ==
    LET tensor == ToFloatTensor(d)
    IN  IF Len(tensor.shape) # NumDimensions
        THEN [err |-> "RuntimeError", sample |-> Null]
        ELSE [err |-> "none", sample |-> get_subject_from_tensor(tensor)]

\* ---------------------------------------------------------- the gate
\* torch.rand(1).item() > self.probability
SkipAtBoundary(r, p) == r >= p

Skip(r, p) == r > p

Draws == 0..(Resolution - 1)

\* deepcopy(sample): whether the result is still the caller's object.
shallow_copy(isCallers) == isCallers

deepcopy(isCallers) == FALSE

\* ------------------------------------------------------- apply_transform
\* What a concrete transform may do with the sample it receives.
Behaviours == {"identity", "overwrite", "divzero", "domain"}

Modes == {"warn", "raise"}

OverwriteAll(s) ==
    [s EXCEPT !.images = [i \in DOMAIN s.images |->
                             [s.images[i] EXCEPT !.val = s.images[i].val + 1]]]

OverwriteFirst(s) ==
    [s EXCEPT !.images[1].val = s.images[1].val + 1]

InfAll(s) ==
    [s EXCEPT !.images = [i \in DOMAIN s.images |->
                             [s.images[i] EXCEPT !.nonfinite = TRUE]]]

\* The new contents of the object it was given, and the error it raises.
\* A NumPy division by zero raises FloatingPointError under mode "raise"
\* and otherwise stores Inf and goes on.
apply_transform(b, s, mode) ==
    CASE b = "identity"  -> [sample |-> s, err |-> "none"]
      [] b = "overwrite" -> [sample |-> OverwriteAll(s), err |-> "none"]
      [] b = "divzero"   ->
            IF mode = "raise"
            THEN [sample |-> OverwriteFirst(s), err |-> "FloatingPointError"]
            ELSE [sample |-> InfAll(s), err |-> "none"]
      [] b = "domain"    -> [sample |-> OverwriteFirst(s), err |-> "DomainError"]

\* ---------------------------------------------------- np.errstate bracket
\* NumPy keeps the error mode per thread: the slot a thread reads and sets.
ErrSlotGlobal(t) == 1

ErrSlot(t) == t

\* __exit__ puts back the mode __enter__ saved.
KeepMode(savedMode, current) == current

RestoredMode(savedMode, current) == savedMode

\* __exit__ returns None: the exception in flight goes on to the caller.
Swallowed(err) == "none"

Propagated(err) == err

\* ------------------------------------------------------------ re-wrapping
RECURSIVE CatVals(_)
CatVals(imgs) ==
    IF imgs = <<>> THEN <<>>
    ELSE [i \in 1..imgs[1].shape[1] |-> imgs[1].val] \o CatVals(Tail(imgs))

\* torch.cat(images): concatenation along the first axis.
torch_cat(imgs) ==
    [shape |-> <<Len(CatVals(imgs))>> \o Tail(imgs[1].shape),
     vals |-> CatVals(imgs),
     nonfinite |-> \E i \in DOMAIN imgs : imgs[i].nonfinite]

RewrapAsTensor(d, transformed, isArray) ==
    LET images == [i \in 1..d.shape[1] |-> transformed.images[i]]
        c == torch_cat(images)
    IN  Raw("tensor", "float32", c.shape, c.vals, c.nonfinite)

Rewrap(d, transformed, isArray) ==
    LET images == [i \in 1..d.shape[1] |-> transformed.images[i]]
        c == torch_cat(images)
    IN  Raw(IF isArray THEN "ndarray" ELSE "tensor", "float32",
            c.shape, c.vals, c.nonfinite)

\* ------------------------------------------------------ parse_interpolation
\* Characters: two letters in both cases and one character without case.
Alphabet == {"a", "A", "b", "B", "_"}

Lower(c) == CASE c = "A" -> "a" [] c = "B" -> "b" [] OTHER -> c
Upper(c) == CASE c = "a" -> "A" [] c = "b" -> "B" [] OTHER -> c

StrLower(s) == [i \in DOMAIN s |-> Lower(s[i])]
StrUpper(s) == [i \in DOMAIN s |-> Upper(s[i])]
StrSame(s) == s

\* The names of the members of the Interpolation enumeration.
Interpolation == {<<"A">>, <<"A", "B">>, <<"B", "_", "A">>}

Member(name) == [tag |-> "enum", s |-> name]

InterpInputs ==
    {[tag |-> "str", s |-> w] :
        w \in UNION {[1..m -> Alphabet] : m \in 0..MaxLen}}
    \cup {Member(n) : n \in Interpolation}
    \cup {[tag |-> "other", s |-> <<>>]}

NoOut ==
    [status |-> "none", err |-> "none", value |-> [tag |-> "other", s |-> <<>>],
     warned |-> FALSE, listed |-> {}]

\* interpolation.lower()
NormaliseCase(s) == StrLower(s)

parse_interpolation(x) ==
    IF x.tag = "enum"
    THEN [NoOut EXCEPT !.status = "returned", !.value = x, !.warned = TRUE]
    ELSE IF x.tag = "str"
    THEN LET interpolation == NormaliseCase(x.s)
             supported_values == {StrLower(key) : key \in Interpolation}
         IN  IF interpolation \in supported_values
             THEN IF StrUpper(interpolation) \in Interpolation
                  THEN [NoOut EXCEPT !.status = "returned",
                                     !.value = Member(StrUpper(interpolation))]
                  ELSE [NoOut EXCEPT !.status = "raised",
                                     !.err = "AttributeError"]
             ELSE [NoOut EXCEPT !.status = "raised", !.err = "AttributeError",
                                !.listed = supported_values]
    ELSE [NoOut EXCEPT !.status = "raised", !.err = "TypeError"]

\* ------------------------------------------------------------------ state
NoOutcome ==
    [status |-> "none", err |-> "none", same |-> FALSE, value |-> Null]

Returned(same, value) ==
    [status |-> "returned", err |-> "none", same |-> same, value |-> value]

Raised(err) ==
    [status |-> "raised", err |-> err, same |-> FALSE, value |-> Null]

\* One call run on its own from entry to exit: what it returns or raises
\* on argument d when the draw is r, the transform behaves as b and the
\* stored probability is p.
invoke(d, r, b, p) ==
    LET isTensor == d.tag = "raw"
        isArray == d.tag = "raw" /\ d.kind = "ndarray"
        parsed == IF isTensor THEN parse_tensor(d)
                  ELSE [err |-> "none", sample |-> d]
        err == IF parsed.err # "none" THEN parsed.err
               ELSE parse_sample(parsed.sample)
    IN  IF err # "none" THEN Raised(err)
        ELSE IF Skip(r, p) THEN Returned(TRUE, d)
        ELSE LET transformed == apply_transform(b, parsed.sample, "raise")
             IN  IF transformed.err # "none" THEN Raised(transformed.err)
                 ELSE IF isTensor
                 THEN Returned(FALSE, Rewrap(d, transformed.sample, isArray))
                 ELSE Returned(FALSE, transformed.sample)

InitCommon ==
    /\ instance = "none"
    /\ pArg = [kind |-> "str", val |-> 0]
    /\ probability = 0
    /\ ctorErr = "none"
    /\ pc = [t \in Threads |-> "idle"]
    /\ data = [t \in Threads |-> Null]
    /\ snapshot = [t \in Threads |-> Null]
    /\ sample = [t \in Threads |-> Null]
    /\ alias = [t \in Threads |-> FALSE]
    /\ is_tensor = [t \in Threads |-> FALSE]
    /\ is_array = [t \in Threads |-> FALSE]
    /\ draw = [t \in Threads |-> 0 - 1]
    /\ copied = [t \in Threads |-> FALSE]
    /\ applied = [t \in Threads |-> 0]
    /\ behaviour = [t \in Threads |-> "none"]
    /\ seen = [t \in Threads |-> "none"]
    /\ pending = [t \in Threads |-> "none"]
    /\ saved = [t \in Threads |-> "none"]
    /\ outcome = [t \in Threads |-> NoOutcome]
    /\ firstErr = [t \in Threads |-> "none"]
    /\ errstate = ambient

\* One caller thread; the caller's error mode is any mode.
Init ==
    /\ ambient \in {m \in [Threads -> Modes] : m[2] = "warn"}
    /\ InitCommon
    /\ interpIn = [tag |-> "other", s |-> <<>>]
    /\ interpOut = NoOut

\* Two caller threads.
InitConc ==
    /\ ambient \in [Threads -> Modes]
    /\ InitCommon
    /\ interpIn = [tag |-> "other", s |-> <<>>]
    /\ interpOut = NoOut

\* parse_interpolation alone, on every argument.
InitInterp ==
    /\ ambient = [t \in Threads |-> "warn"]
    /\ InitCommon
    /\ interpIn \in InterpInputs
    /\ interpOut = NoOut

\* ---------------------------------------------------------------- actions
\* Transform.__init__(p)
Construct(p) ==
    /\ instance = "none"
    /\ LET r == parse_probability(p)
       IN  /\ pArg' = p
           /\ instance' = IF r.err = "none" THEN "live" ELSE "failed"
           /\ probability' = IF r.err = "none" THEN r.value ELSE probability
           /\ ctorErr' = r.err
    /\ UNCHANGED <<callVars, ambient, interpVars>>

\* The contents of the object the local `sample` refers to.
SampleOf(t) == IF alias[t] THEN data[t] ELSE sample[t]

\* __call__, from its entry to the end of validation.
Begin(t, d) ==
    /\ data' = [data EXCEPT ![t] = d]
    /\ snapshot' = [snapshot EXCEPT ![t] = d]
    /\ is_tensor' = [is_tensor EXCEPT ![t] = (d.tag = "raw")]
    /\ is_array' = [is_array EXCEPT ![t] = (d.tag = "raw" /\ d.kind = "ndarray")]
    /\ LET parsed == IF d.tag = "raw" THEN parse_tensor(d)
                     ELSE [err |-> "none", sample |-> d]
           err == IF parsed.err # "none" THEN parsed.err
                  ELSE parse_sample(parsed.sample)
       IN  /\ sample' = [sample EXCEPT ![t] =
                            IF d.tag = "raw" THEN parsed.sample ELSE Null]
           /\ alias' = [alias EXCEPT ![t] = (d.tag # "raw")]
           /\ pc' = [pc EXCEPT ![t] = IF err = "none" THEN "gate" ELSE "done"]
           /\ outcome' = [outcome EXCEPT ![t] =
                            IF err = "none" THEN NoOutcome ELSE Raised(err)]
    /\ UNCHANGED <<ctorVars, draw, copied, applied, behaviour, seen, pending,
                   errstate, saved, ambient, interpVars>>

\* The caller invokes the transform on an argument.
Call(t, d) ==
    /\ instance = "live"
    /\ pc[t] = "idle"
    /\ Begin(t, d)
    /\ UNCHANGED firstErr

\* The caller, whose call failed validation, invokes the transform again
\* on the same argument.
Recall(t) ==
    /\ pc[t] = "done"
    /\ outcome[t].status = "raised"
    /\ applied[t] = 0
    /\ firstErr[t] = "none"
    /\ Begin(t, data[t])
    /\ firstErr' = [firstErr EXCEPT ![t] = outcome[t].err]

\* The random draw, the skip return, the deep copy.
Gate(t, r) ==
    /\ pc[t] = "gate"
    /\ draw' = [draw EXCEPT ![t] = r]
    /\ IF Skip(r, probability)
       THEN /\ outcome' = [outcome EXCEPT ![t] = Returned(TRUE, data[t])]
            /\ pc' = [pc EXCEPT ![t] = "done"]
            /\ UNCHANGED <<sample, alias, copied>>
       ELSE /\ sample' = [sample EXCEPT ![t] = SampleOf(t)]
            /\ alias' = [alias EXCEPT ![t] = deepcopy(alias[t])]
            /\ copied' = [copied EXCEPT ![t] = TRUE]
            /\ pc' = [pc EXCEPT ![t] = "enter"]
            /\ UNCHANGED outcome
    /\ UNCHANGED <<ctorVars, data, snapshot, is_tensor, is_array, applied,
                   behaviour, seen, pending, errstate, saved, ambient,
                   firstErr, interpVars>>

\* np.errstate(all='raise').__enter__
Enter(t) ==
    /\ pc[t] = "enter"
    /\ saved' = [saved EXCEPT ![t] = errstate[ErrSlot(t)]]
    /\ errstate' = [errstate EXCEPT ![ErrSlot(t)] = "raise"]
    /\ pc' = [pc EXCEPT ![t] = "running"]
    /\ UNCHANGED <<ctorVars, data, snapshot, sample, alias, is_tensor,
                   is_array, draw, copied, applied, behaviour, seen, pending,
                   ambient, outcome, firstErr, interpVars>>

\* self.apply_transform(sample)
Apply(t, b) ==
    /\ pc[t] = "running"
    /\ LET mode == errstate[ErrSlot(t)]
           r == apply_transform(b, SampleOf(t), mode)
       IN  /\ seen' = [seen EXCEPT ![t] = mode]
           /\ pending' = [pending EXCEPT ![t] = r.err]
           /\ IF alias[t]
              THEN /\ data' = [data EXCEPT ![t] = r.sample]
                   /\ UNCHANGED sample
              ELSE /\ sample' = [sample EXCEPT ![t] = r.sample]
                   /\ UNCHANGED data
    /\ behaviour' = [behaviour EXCEPT ![t] = b]
    /\ applied' = [applied EXCEPT ![t] = applied[t] + 1]
    /\ pc' = [pc EXCEPT ![t] = "exit"]
    /\ UNCHANGED <<ctorVars, snapshot, alias, is_tensor, is_array, draw,
                   copied, errstate, saved, ambient, outcome, firstErr,
                   interpVars>>

\* np.errstate.__exit__, then the re-wrapping and the return.
Exit(t) ==
    /\ pc[t] = "exit"
    /\ errstate' = [errstate EXCEPT ![ErrSlot(t)] =
                       RestoredMode(saved[t], errstate[ErrSlot(t)])]
    /\ outcome' = [outcome EXCEPT ![t] =
          IF Propagated(pending[t]) # "none" THEN Raised(pending[t])
          ELSE IF is_tensor[t]
               THEN Returned(FALSE, Rewrap(data[t], SampleOf(t), is_array[t]))
               ELSE Returned(alias[t], SampleOf(t))]
    /\ pc' = [pc EXCEPT ![t] = "done"]
    /\ UNCHANGED <<ctorVars, data, snapshot, sample, alias, is_tensor,
                   is_array, draw, copied, applied, behaviour, seen, pending,
                   saved, ambient, firstErr, interpVars>>

\* The caller takes the result; the thread is ready for another call.
Return(t) ==
    /\ pc[t] = "done"
    /\ pc' = [pc EXCEPT ![t] = "idle"]
    /\ data' = [data EXCEPT ![t] = Null]
    /\ snapshot' = [snapshot EXCEPT ![t] = Null]
    /\ sample' = [sample EXCEPT ![t] = Null]
    /\ alias' = [alias EXCEPT ![t] = FALSE]
    /\ is_tensor' = [is_tensor EXCEPT ![t] = FALSE]
    /\ is_array' = [is_array EXCEPT ![t] = FALSE]
    /\ draw' = [draw EXCEPT ![t] = 0 - 1]
    /\ copied' = [copied EXCEPT ![t] = FALSE]
    /\ applied' = [applied EXCEPT ![t] = 0]
    /\ behaviour' = [behaviour EXCEPT ![t] = "none"]
    /\ seen' = [seen EXCEPT ![t] = "none"]
    /\ pending' = [pending EXCEPT ![t] = "none"]
    /\ saved' = [saved EXCEPT ![t] = "none"]
    /\ outcome' = [outcome EXCEPT ![t] = NoOutcome]
    /\ firstErr' = [firstErr EXCEPT ![t] = "none"]
    /\ UNCHANGED <<ctorVars, errstate, ambient, interpVars>>

\* Transform.parse_interpolation(interpolation)
ParseInterpolation ==
    /\ interpOut = NoOut
    /\ interpOut' = parse_interpolation(interpIn)
    /\ UNCHANGED <<ctorVars, callVars, ambient, interpIn>>

Step(t) ==
    \/ \E r \in Draws : Gate(t, r)
    \/ Enter(t)
    \/ \E b \in Behaviours : Apply(t, b)
    \/ Exit(t)
    \/ Recall(t)
    \/ Return(t)

Next ==
    \/ \E p \in PInputs : Construct(p)
    \/ \E d \in Inputs : Call(1, d)
    \/ Step(1)

NextConc ==
    \/ \E p \in PInputs : Construct(p)
    \/ \E t \in Threads, d \in ConcInputs : Call(t, d)
    \/ \E t \in Threads : Step(t)

NextInterp == ParseInterpolation

Spec == Init /\ [][Next]_vars
SpecConc == InitConc /\ [][NextConc]_vars
SpecInterp == InitInterp /\ [][NextInterp]_vars

\* ================================================================ claims
\* An argument __call__ accepts: a raw buffer of NumDimensions dimensions or
\* a Subject that is a sample of a dataset.
Valid(d) ==
    \/ d.tag = "raw" /\ Len(d.shape) = NumDimensions
    \/ d.tag = "subject" /\ d.is_sample

InCall(t) == pc[t] # "idle"

\* The error mode thread t reads.
ModeOf(t) == errstate[ErrSlot(t)]

\* C1: the per-channel data of a dataset-derived container given to
\* __call__ equals its pre-call snapshot at every point of the call and
\* after it, whether __call__ skips, returns or raises, whatever
\* apply_transform does to the sample it receives.
C1_NonMutation ==
    \A t \in Threads :
        (snapshot[t].tag = "subject" /\ snapshot[t].is_sample)
            => data[t] = snapshot[t]

\* C1 witness: a call on a two-channel container has returned after
\* apply_transform overwrote every channel of the sample it was given.
C1_Witness ==
    /\ pc[1] = "done"
    /\ snapshot[1].tag = "subject" /\ snapshot[1].is_sample
    /\ Len(snapshot[1].images) = 2
    /\ behaviour[1] = "overwrite"
    /\ outcome[1].status = "returned"
    /\ outcome[1].value # snapshot[1]

\* C2: with probability 0 every call on a valid argument returns the
\* original argument itself, unchanged, without invoking apply_transform,
\* whatever the draw in [0,1).
C2_ZeroAlwaysSkips ==
    \A t \in Threads :
        (instance = "live" /\ probability = 0 /\ pc[t] = "done"
         /\ Valid(snapshot[t]))
            => /\ outcome[t].status = "returned"
               /\ outcome[t].same
               /\ outcome[t].value = snapshot[t]
               /\ applied[t] = 0

\* C3: on a valid argument the call skips (returns the argument itself,
\* no copy, no apply_transform) exactly when the draw is strictly greater
\* than the probability; otherwise, the draw equal to the probability
\* included, it deep-copies and invokes apply_transform exactly once; with
\* probability 1 no call skips.
C3_GatingRule ==
    \A t \in Threads :
        (Valid(snapshot[t]) /\ draw[t] >= 0)
            => /\ draw[t] > probability
                   => /\ pc[t] = "done"
                      /\ outcome[t] = Returned(TRUE, snapshot[t])
                      /\ ~copied[t]
                      /\ applied[t] = 0
               /\ draw[t] <= probability
                   => /\ copied[t]
                      /\ ~alias[t]
                      /\ applied[t] = (IF pc[t] \in {"exit", "done"} THEN 1 ELSE 0)
                      /\ ~(outcome[t].status = "returned" /\ outcome[t].same)
               /\ (probability = Resolution /\ pc[t] = "done")
                   => applied[t] = 1 /\ ~outcome[t].same

\* C3 witness: a finished call whose draw equalled the probability and
\* which invoked apply_transform.
C3_Witness ==
    /\ pc[1] = "done"
    /\ Valid(snapshot[1])
    /\ probability = 2
    /\ draw[1] = probability
    /\ applied[1] = 1

\* C4: an argument that is a raw buffer of another dimensionality, or not
\* a dataset-derived Subject, makes the call raise RuntimeError before any
\* draw, copy or apply_transform, for every probability; the same call
\* made again raises the same kind of error.
C4_ValidationFirst ==
    \A t \in Threads :
        (InCall(t) /\ ~Valid(snapshot[t]))
            => /\ pc[t] = "done"
               /\ outcome[t] = Raised("RuntimeError")
               /\ draw[t] < 0
               /\ ~copied[t]
               /\ applied[t] = 0
               /\ firstErr[t] \in {"none", outcome[t].err}

\* C4 witness: with probability 0, a call on a Subject that is no sample
\* has raised for the second time.
C4_Witness ==
    /\ pc[1] = "done"
    /\ probability = 0
    /\ snapshot[1].tag = "subject" /\ ~snapshot[1].is_sample
    /\ firstErr[1] = "RuntimeError"
    /\ outcome[1].status = "raised"

RoundTripCase(t) ==
    /\ pc[t] = "done"
    /\ snapshot[t].tag = "raw"
    /\ Len(snapshot[t].shape) = NumDimensions
    /\ probability = Resolution
    /\ behaviour[t] = "identity"

Transformed(t) ==
    LET s0 == IF snapshot[t].tag = "raw" THEN parse_tensor(snapshot[t]).sample
              ELSE snapshot[t]
    IN  apply_transform(behaviour[t], s0, "raise")

\* C6: a finished call has exactly one of three outcomes: it returned the
\* complete result of apply_transform in the kind of the argument, it
\* returned the unmodified argument without applying, or it raised and
\* returned nothing; when apply_transform faults the call raises that very
\* error, and a division by zero never yields a result holding Inf or NaN.
C6_Trichotomy ==
    \A t \in Threads :
        pc[t] = "done" =>
            LET o == outcome[t]
                full == IF applied[t] = 1 THEN Transformed(t)
                        ELSE [sample |-> Null, err |-> "none"]
                isApplied ==
                    /\ o.status = "returned" /\ applied[t] = 1
                    /\ full.err = "none"
                    /\ o.value = (IF snapshot[t].tag = "raw"
                                  THEN Rewrap(snapshot[t], full.sample,
                                              snapshot[t].kind = "ndarray")
                                  ELSE full.sample)
                    /\ ~o.value.nonfinite
                    /\ \A i \in DOMAIN o.value.images :
                           ~o.value.images[i].nonfinite
                isSkipped ==
                    /\ o.status = "returned" /\ applied[t] = 0
                    /\ o.same /\ o.value = snapshot[t]
                isRaised ==
                    /\ o.status = "raised" /\ o.value = Null
                    /\ o.err # "none"
                    /\ applied[t] = 1 => o.err = full.err
            IN  /\ isApplied \/ isSkipped \/ isRaised
                /\ ~(isApplied /\ isSkipped)
                /\ ~(isApplied /\ isRaised)
                /\ ~(isSkipped /\ isRaised)
                /\ (applied[t] = 1 /\ full.err # "none") => isRaised
                /\ behaviour[t] = "divzero"
                       => o = Raised("FloatingPointError")

\* C6 witness: a caller whose own mode is not strict got
\* FloatingPointError from a transform that divided by zero.
C6_Witness ==
    /\ pc[1] = "done"
    /\ ambient[1] = "warn"
    /\ behaviour[1] = "divzero"
    /\ outcome[1] = Raised("FloatingPointError")

\* C7: construction succeeds, storing p unchanged, exactly when p is a real
\* number with 0 <= p <= 1; otherwise it raises (ValueError, or TypeError
\* from ordering a complex number) and yields no instance; the stored
\* probability stays the constructor's argument through every later call.
C7_ProbabilityValidation ==
    instance # "none" =>
        /\ instance = "live"
              <=> (pArg.kind = "real" /\ 0 <= pArg.val /\ pArg.val <= Resolution)
        /\ instance = "live" => probability = pArg.val /\ ctorErr = "none"
        /\ instance = "failed"
              => /\ ctorErr \in {"ValueError", "TypeError"}
                 /\ pArg.kind # "complex" => ctorErr = "ValueError"
                 /\ \A t \in Threads : pc[t] = "idle"

\* C7 witness: a transform built with p = 0 has been through a call that
\* applied it.
C7_Witness ==
    /\ instance = "live"
    /\ pArg = [kind |-> "real", val |-> 0]
    /\ pc[1] = "done"
    /\ applied[1] = 1

\* Two characters that are the same letter in either case.
SameLetter(c1, c2) ==
    c1 = c2 \/ {c1, c2} \in {{"a", "A"}, {"b", "B"}}

CaseInsensitiveEqual(s, n) ==
    Len(s) = Len(n) /\ \A i \in DOMAIN s : SameLetter(s[i], n[i])

\* C8: a string that equals a registry name up to case resolves to that
\* member, whatever its spelling; a string that matches no name raises
\* AttributeError listing the supported values; a member of the
\* enumeration is returned unchanged with a warning.
C8_InterpolationLookup ==
    interpOut # NoOut =>
        LET matches == {n \in Interpolation :
                           CaseInsensitiveEqual(interpIn.s, n)}
        IN  /\ (interpIn.tag = "str" /\ matches # {})
                  => /\ interpOut.status = "returned"
                     /\ interpOut.value.tag = "enum"
                     /\ matches = {interpOut.value.s}
                     /\ ~interpOut.warned
            /\ (interpIn.tag = "str" /\ matches = {})
                  => /\ interpOut.status = "raised"
                     /\ interpOut.err = "AttributeError"
                     /\ interpOut.listed = {StrLower(n) : n \in Interpolation}
            /\ interpIn.tag = "enum"
                  => /\ interpOut.status = "returned"
                     /\ interpOut.value = interpIn
                     /\ interpOut.warned

\* C8 witness: a mixed-case spelling has resolved to its member.
C8_Witness ==
    /\ interpIn = [tag |-> "str", s |-> <<"a", "B">>]
    /\ interpOut.status = "returned"
    /\ interpOut.value = Member(<<"A", "B">>)

\* C9: the error mode is "raise" from the entry of the bracket to its
\* exit, apply_transform runs under it, and at every other point of a
\* call, and after it on every exit path, the mode is the one the caller
\* had before the call.
C9_ErrstateBracket ==
    \A t \in Threads :
        /\ pc[t] \in {"running", "exit"} => ModeOf(t) = "raise"
        /\ pc[t] \notin {"running", "exit"} => ModeOf(t) = ambient[t]
        /\ applied[t] > 0 => seen[t] = "raise"

\* C9 witness: after a call in which apply_transform raised, a caller
\* whose mode was "warn" has it back.
C9_Witness ==
    /\ pc[1] = "done"
    /\ ambient[1] = "warn"
    /\ behaviour[1] = "domain"
    /\ outcome[1].status = "raised"
    /\ ModeOf(1) = "warn"

====
